---- MODULE Spec2Model ----
(***************************************************************************)
(* Indirect Emissions Modeller (src/app.py).                               *)
(*                                                                         *)
(* The three page fragments fn_FormStaff, fn_FormCommute and fn_FormWfh    *)
(* recompute their outputs from the widget values and from the session     *)
(* state each time they run; the Confirm button of a fragment hands the    *)
(* outputs to fn_Refresher, which commits them to the session state,       *)
(* recomputes the total and appends one row to the log.                    *)
(*                                                                         *)
(* Python floats are modelled as exact rationals [n, d] in lowest terms    *)
(* (d > 0).  Where the code floors a float product, the places where the   *)
(* double product falls below the exact value are listed explicitly.       *)
(***************************************************************************)
EXTENDS Integers, Sequences, FiniteSets, TLC

(***************************************************************************)
(* Rational arithmetic                                                     *)
(***************************************************************************)
Abs(x) == IF x < 0 THEN -x ELSE x

Min2(a, b) == IF a <= b THEN a ELSE b

Max2(a, b) == IF a >= b THEN a ELSE b

RECURSIVE GCD(_, _)
GCD(a, b) == IF b = 0 THEN a ELSE GCD(b, a % b)

\* n/d in lowest terms, d > 0
Rat(n, d) ==
    LET g == GCD(Abs(n), d)
    IN  [n |-> (IF n < 0 THEN -(Abs(n) \div g) ELSE n \div g), d |-> d \div g]

RInt(i) == [n |-> i, d |-> 1]

RZero == RInt(0)

RAdd(x, y) ==
    LET g == GCD(x.d, y.d)
    IN  Rat(x.n * (y.d \div g) + y.n * (x.d \div g), (x.d \div g) * y.d)

RNeg(x) == [n |-> -x.n, d |-> x.d]

RSub(x, y) == RAdd(x, RNeg(y))

RMul(x, y) ==
    LET g1 == GCD(Abs(x.n), y.d)
        g2 == GCD(Abs(y.n), x.d)
        h1 == IF g1 = 0 THEN 1 ELSE g1
        h2 == IF g2 = 0 THEN 1 ELSE g2
    IN  Rat((IF x.n < 0 THEN -(Abs(x.n) \div h1) ELSE x.n \div h1)
              * (IF y.n < 0 THEN -(Abs(y.n) \div h2) ELSE y.n \div h2),
            (x.d \div h2) * (y.d \div h1))

\* x / y for y > 0
RDiv(x, y) == RMul(x, [n |-> y.d, d |-> y.n])

RLeq(x, y) == RSub(y, x).n >= 0

RLt(x, y) == RSub(y, x).n > 0

\* floor of a rational >= 0
RFloor(x) == x.n \div x.d

\* np.round(x, k) for x >= 0 with scale = 10^k: round half to even
RRound(x, scale) ==
    LET num == x.n * scale
        q   == num \div x.d
        r2  == 2 * (num % x.d)
        up  == r2 > x.d \/ (r2 = x.d /\ q % 2 = 1)
    IN  Rat(IF up THEN q + 1 ELSE q, scale)

RECURSIVE RSumRange(_, _, _)
\* s[lo] + ... + s[hi], summed by halves
RSumRange(s, lo, hi) ==
    IF lo > hi THEN RZero
    ELSE IF lo = hi THEN s[lo]
    ELSE LET mid == (lo + hi) \div 2
         IN  RAdd(RSumRange(s, lo, mid), RSumRange(s, mid + 1, hi))

\* sum(list) of a list of rationals
RSumSeq(s) == RSumRange(s, 1, Len(s))

\* [v for y in range(k)]: empty when k <= 0
Repeat(v, k) == [y \in 1..k |-> v]

(***************************************************************************)
(* params_d: the parameter set read from config.yml (src/app.py:35-39).    *)
(* The file is not part of the sources; the values below are a parameter   *)
(* set with the keys the code reads.                                       *)
(***************************************************************************)
MinStaffNum == 0

\* params_d['MaxStaffNum'], the largest headcount of the 'Staff number' slider:
\* the headcounts that are followed
MaxStaffNum == 8

DefaultStaffNum == 2

MaxWorkDaysPerWeek == 5

MaxWorkDaysPerYear == 253

MaxHoursPerWeek == 35

MinHoursPerWeek == 10

MaxWorkDaysPerMonth == 20

MaxVisitsPerMonth == 20

DefaultAbsencePerYear == 5

(***************************************************************************)
(* fn_FormStaff, src/app.py:96-158                                         *)
(***************************************************************************)
\* the four fixed proportions [0.1, 0.2, 0.4, 0.2], in tenths (line 127)
PartTimeTenths == <<1, 2, 4, 2>>

\* np.linspace(MinHoursPerWeek, fteHoursPerWeek, num=5, endpoint=False)[ix]
part_time_group_lims(fteHoursPerWeek, ix) ==
    Rat(5 * MinHoursPerWeek + ix * (fteHoursPerWeek - MinHoursPerWeek), 5)

\* int(np.floor(total_staff_num * part_time_pct)), part_time_pct = pct / 100.
\* For headcounts up to 12 the double product floors to the exact value.
part_time_num(total_staff_num, pct) == (total_staff_num * pct) \div 100

\* the bucket size rounded up instead of cut
PartTimeBucketSizeRoundedUp(ptn, ix) == (ptn * PartTimeTenths[ix] + 9) \div 10

\* int(part_time_num * ix2) for the ix-th of the first four buckets (1-based)
PartTimeBucketSize(ptn, ix) == (ptn * PartTimeTenths[ix]) \div 10

RECURSIVE PartTimeFirstFour(_, _, _)
\* the loop of lines 126-128 over buckets 1..k
PartTimeFirstFour(ptn, fteHoursPerWeek, k) ==
    IF k = 0 THEN <<>>
    ELSE PartTimeFirstFour(ptn, fteHoursPerWeek, k - 1)
           \o Repeat(part_time_group_lims(fteHoursPerWeek, k - 1),
                     PartTimeBucketSize(ptn, k))

\* part_time_num - len(part_time_group) at line 130
PartTimeRemainder(ptn, fteHoursPerWeek) ==
    ptn - Len(PartTimeFirstFour(ptn, fteHoursPerWeek, 4))

\* part_time_group after line 130: the fifth bucket takes the remainder
part_time_group(ptn, fteHoursPerWeek) ==
    PartTimeFirstFour(ptn, fteHoursPerWeek, 4)
        \o Repeat(part_time_group_lims(fteHoursPerWeek, 4),
                  PartTimeRemainder(ptn, fteHoursPerWeek))

\* one full-time member too many
total_staff_group_OneMore(total_staff_num, pct, fteHoursPerWeek) ==
    LET ptn == part_time_num(total_staff_num, pct)
    IN  Repeat(RInt(fteHoursPerWeek), total_staff_num - ptn + 1)
          \o part_time_group(ptn, fteHoursPerWeek)

\* line 131
total_staff_group(total_staff_num, pct, fteHoursPerWeek) ==
    LET ptn == part_time_num(total_staff_num, pct)
    IN  Repeat(RInt(fteHoursPerWeek), total_staff_num - ptn)
          \o part_time_group(ptn, fteHoursPerWeek)

\* lines 110-114; absence2 is absenceDaysPerYear in half days (step 0.5)
singleFtePerYear(fteHoursPerWeek, daysHolidayPerYear, absence2) ==
    RMul(Rat(fteHoursPerWeek, MaxWorkDaysPerWeek),
         Rat(2 * (MaxWorkDaysPerYear - daysHolidayPerYear) - absence2, 2))

\* the locals of one run of fn_FormStaff
FormStaff(total_staff_num, pct, fteHoursPerWeek, daysHolidayPerYear, absence2) ==
    LET group  == total_staff_group(total_staff_num, pct, fteHoursPerWeek)
        single == singleFtePerYear(fteHoursPerWeek, daysHolidayPerYear, absence2)
        fte    == RRound(RDiv(RSumSeq(group), RInt(MaxHoursPerWeek)), 100)
    IN  [form              |-> "Staff",
         total_staff_num   |-> total_staff_num,
         part_time_pct     |-> pct,
         part_time_num     |-> part_time_num(total_staff_num, pct),
         full_time_num     |-> total_staff_num - part_time_num(total_staff_num, pct),
         fifth_bucket_num  |->
             PartTimeRemainder(part_time_num(total_staff_num, pct), fteHoursPerWeek),
         total_staff_group |-> group,
         newFteTotal       |-> fte,
         newStaffTotal     |-> total_staff_num,
         newAbsenceRate    |-> RDiv(single,
                                    RMul(Rat(fteHoursPerWeek, MaxWorkDaysPerWeek),
                                         RInt(MaxWorkDaysPerYear))),
         newTtlHrsPerYr    |-> RMul(single, fte)]

\* the headcount committed under the key of the total distance
StaffCommitWrongKey(r) ==
    << <<"sessionFteTotal", r.newFteTotal>>,
       <<"sessionDistanceTotal", r.newStaffTotal>>,
       <<"sessionStaffAbsenceRate", r.newAbsenceRate>>,
       <<"sessionStaffTotalHoursPerYear", r.newTtlHrsPerYr>> >>

\* commit_l of lines 145-150
StaffCommit(r) ==
    << <<"sessionFteTotal", r.newFteTotal>>,
       <<"sessionStaffTotal", r.newStaffTotal>>,
       <<"sessionStaffAbsenceRate", r.newAbsenceRate>>,
       <<"sessionStaffTotalHoursPerYear", r.newTtlHrsPerYr>> >>

(***************************************************************************)
(* fn_FormCommute, src/app.py:162-246                                      *)
(***************************************************************************)
\* upper end of the 'Staff travel distance range (km)' slider (line 168)
MaxSliderDistance == 1000

DefaultMaxStaffDistance == 50

\* number of distance buckets: np.linspace(..., num=20, endpoint=True)
NumDistanceLims == 20

\* radioCloseFar_d (line 171)
radioCloseFar_d ==
    [c \in {"Very close", "Close", "Far", "Medium"} |->
        CASE c = "Very close" -> "VeryCloseList"
          [] c = "Close"      -> "CloseList"
          [] c = "Far"        -> "FarList"
          [] c = "Medium"     -> "MediumList"]

\* params_d['VeryCloseList'] .. params_d['FarList']: the bucket proportions of
\* config.yml, in percent, one entry per distance bucket
ClosenessTable ==
    [l \in {"VeryCloseList", "CloseList", "MediumList", "FarList"} |->
        CASE l = "VeryCloseList" ->
                <<30, 20, 15, 10, 5, 5, 5, 2, 2, 2, 1, 1, 1, 1, 0, 0, 0, 0, 0, 0>>
          [] l = "CloseList" ->
                <<10, 15, 20, 15, 10, 10, 5, 5, 2, 2, 2, 1, 1, 1, 1, 0, 0, 0, 0, 0>>
          [] l = "MediumList" ->
                <<2, 3, 5, 5, 10, 10, 15, 15, 10, 10, 5, 5, 2, 1, 1, 1, 0, 0, 0, 0>>
          [] l = "FarList" ->
                <<0, 0, 0, 1, 1, 1, 2, 2, 3, 5, 5, 10, 10, 15, 15, 10, 10, 5, 3, 2>>]

\* distance_group_lims[ix], ix = 0 .. 19 (line 184)
distance_group_lims(sliderDistance, ix) ==
    LET lo == Min2(sliderDistance[1], sliderDistance[2])
        hi == Max2(sliderDistance[1], sliderDistance[2])
    IN  Rat((NumDistanceLims - 1) * lo + ix * (hi - lo), NumDistanceLims - 1)

\* int(max(sliderDistance) * ix2) for the ix-th table entry (1-based), line 187
DistanceBucketSize(sliderDistance, table, ix) ==
    (Max2(sliderDistance[1], sliderDistance[2]) * table[ix]) \div 100

RECURSIVE DistanceFirstBuckets(_, _, _)
\* the loop of lines 186-187 over the first k entries of the table
DistanceFirstBuckets(sliderDistance, table, k) ==
    IF k = 0 THEN <<>>
    ELSE DistanceFirstBuckets(sliderDistance, table, k - 1)
           \o Repeat(distance_group_lims(sliderDistance, k - 1),
                     DistanceBucketSize(sliderDistance, table, k))

\* distance_group after line 189; the table is cut to params_d[...][:-2]
distance_group(sliderDistance, radioCloseFar, sessionStaffTotal) ==
    LET table == ClosenessTable[radioCloseFar_d[radioCloseFar]]
        first == DistanceFirstBuckets(sliderDistance, table, Len(table) - 2)
    IN  first \o Repeat(distance_group_lims(sliderDistance, NumDistanceLims - 1),
                        sessionStaffTotal - Len(first))

\* maxCommuteDistance (line 176)
maxCommuteDistance(sliderDistance) == Max2(sliderDistance[1], sliderDistance[2]) * 4

\* the comparison of line 192 the wrong way round
CapCommuteFlipped(d, sliderOfficeVisits, cap) ==
    LET raw == RMul(d, RInt(2 * sliderOfficeVisits))
    IN  IF RLt(RInt(cap), raw) THEN raw ELSE RInt(cap)

\* one member of distanceCommute (lines 191-192)
CapCommute(d, sliderOfficeVisits, cap) ==
    LET raw == RMul(d, RInt(2 * sliderOfficeVisits))
    IN  IF RLt(raw, RInt(cap)) THEN raw ELSE RInt(cap)

\* distanceCommute (lines 191-192)
distanceCommute(group, sliderOfficeVisits, sliderDistance) ==
    [i \in 1..Len(group) |->
        CapCommute(group[i], sliderOfficeVisits, maxCommuteDistance(sliderDistance))]

\* the widget values at which the double sum of line 194 ends just below the
\* exact integer sum, so that int() yields one less (headcounts up to 9,
\* distances up to 7 or 50)
FloatSumShort ==
    {<<"Very close", <<2, 50>>, 5>>, <<"Very close", <<2, 50>>, 6>>,
     <<"Very close", <<7, 50>>, 5>>}

\* int(sum(distanceCommute)), line 194
newDistanceTotal(commute, sliderDistance, sliderOfficeVisits, radioCloseFar) ==
    IF <<radioCloseFar, sliderDistance, sliderOfficeVisits>> \in FloatSumShort
    THEN RFloor(RSumSeq(commute)) - 1
    ELSE RFloor(RSumSeq(commute))

\* carFuelOptions (line 219)
carFuelOptions ==
    {"United Kingdom", "England", "South East", "North East", "North West",
     "Northern Ireland", "Scotland", "South West", "Wales"}

\* params_d[f'{selectCarRegion}_PetrolRatio']
PetrolRatio(selectCarRegion) ==
    CASE selectCarRegion = "United Kingdom" -> Rat(3, 5)
      [] selectCarRegion = "Scotland"       -> Rat(1, 2)
      [] OTHER                              -> Rat(11, 20)

CarPetrolConvFactor == 170

CarDieselConvFactor == 160

BusConvFactor == 100

TrainConvFactor == 35

\* train_pct as what car and bus leave, the walk share forgotten
TransportMixNoWalk(sliderTransMix, sliderBusTrain) ==
    LET lo == Min2(sliderTransMix[1], sliderTransMix[2])
        hi == Max2(sliderTransMix[1], sliderTransMix[2])
    IN  [walk_pct  |-> lo,
         car_pct   |-> hi - lo,
         bus_pct   |-> sliderBusTrain,
         train_pct |-> 100 - (hi - lo) - sliderBusTrain]

\* the four percentages of lines 209-212
TransportMix(sliderTransMix, sliderBusTrain) ==
    LET lo == Min2(sliderTransMix[1], sliderTransMix[2])
        hi == Max2(sliderTransMix[1], sliderTransMix[2])
    IN  [walk_pct  |-> lo,
         car_pct   |-> hi - lo,
         bus_pct   |-> sliderBusTrain,
         train_pct |-> 100 - hi - sliderBusTrain]

\* the per-mode formula of lines 223-234 applied to a total distance
TransportEmissions(distanceTotal, mix, selectCarRegion) ==
    LET emissionsCar       == RInt(distanceTotal * mix.car_pct)
        emissionsCarPetrol == RMul(emissionsCar, PetrolRatio(selectCarRegion))
        emissionsCarDiesel == RSub(emissionsCar, emissionsCarPetrol)
    IN  RSumSeq(<< RMul(emissionsCarPetrol, RInt(CarPetrolConvFactor)),
                   RMul(emissionsCarDiesel, RInt(CarDieselConvFactor)),
                   RInt(distanceTotal * mix.bus_pct * BusConvFactor),
                   RInt(distanceTotal * mix.train_pct * TrainConvFactor) >>)

\* the total distance the emissions of lines 223-232 are computed from
EmissionsDistance(ss, newTotal) == ss.sessionDistanceTotal

\* the locals of one run of fn_FormCommute; ss is st.session_state
FormCommute(ss, sliderDistance, sliderOfficeVisits, radioCloseFar, sliderTransMix, sliderBusTrain, selectCarRegion) ==
    LET group    == distance_group(sliderDistance, radioCloseFar, ss.sessionStaffTotal)
        commute  == distanceCommute(group, sliderOfficeVisits, sliderDistance)
        newTotal == newDistanceTotal(commute, sliderDistance, sliderOfficeVisits,
                                     radioCloseFar)
        mix      == TransportMix(sliderTransMix, sliderBusTrain)
    IN  [form                  |-> "Commute",
         sliderDistance        |-> sliderDistance,
         sliderOfficeVisits    |-> sliderOfficeVisits,
         sliderTransMix        |-> sliderTransMix,
         sliderBusTrain        |-> sliderBusTrain,
         selectCarRegion       |-> selectCarRegion,
         staffTotalRead        |-> ss.sessionStaffTotal,
         distance_group        |-> group,
         distanceCommute       |-> commute,
         mix                   |-> mix,
         newOfficeRate         |-> RRound(Rat(sliderOfficeVisits, MaxWorkDaysPerMonth), 10000),
         newDistanceTotal      |-> newTotal,
         newEmissionsTransport |->
             TransportEmissions(EmissionsDistance(ss, newTotal), mix, selectCarRegion)]

\* commit_l of lines 236-240
CommuteCommit(r) ==
    << <<"sessionStaffOfficeRate", r.newOfficeRate>>,
       <<"sessionDistanceTotal", r.newDistanceTotal>>,
       <<"sessionEmissionsTransport", r.newEmissionsTransport>> >>

(***************************************************************************)
(* fn_FormWfh, src/app.py:250-364                                          *)
(***************************************************************************)
\* params_d['ItOptions'] (energy per hour, or per phone), config.yml
ItOptions ==
    [o \in {"mobile phone", "laptop", "desktop + monitor"} |->
        CASE o = "mobile phone"      -> Rat(2, 1)
          [] o = "laptop"            -> Rat(1, 20)
          [] o = "desktop + monitor" -> Rat(1, 5)]

\* params_d['ScreenOptions'], config.yml
ScreenOptions ==
    [o \in {"1 extra monitor", "2 extra monitors"} |->
        CASE o = "1 extra monitor"  -> Rat(1, 20)
          [] o = "2 extra monitors" -> Rat(1, 10)]

ElectricConvFactor == 200

LightAllowance == Rat(1, 50)

HeatAllowance == 2

HeatConvFactor == 180

\* rng.integers(low=1, high=int(100 / (len(optionsMonitor) + 1))): the values
\* 1 .. high - 1, of which the lowest and the highest are followed
OptTtlDraws(optionsMonitor) ==
    LET high == 100 \div (Cardinality(optionsMonitor) + 1)
    IN  {t \in 1..(high - 1) : t = 1 \/ t = high - 1}

\* every assignment of a drawn opt_ttl to the selected monitor options
MonitorDraws(optionsMonitor) == [optionsMonitor -> OptTtlDraws(optionsMonitor)]

RECURSIVE monitorGroupRaw(_, _, _)
\* the loop of lines 280-283
monitorGroupRaw(wfhHours, optionsMonitor, opt_ttl) ==
    IF optionsMonitor = {} THEN RZero
    ELSE LET this_option == CHOOSE o \in optionsMonitor : TRUE
         IN  RAdd(RMul(RMul(wfhHours, Rat(opt_ttl[this_option], 100)),
                       ScreenOptions[this_option]),
                  monitorGroupRaw(wfhHours, optionsMonitor \ {this_option}, opt_ttl))

\* int(sessionStaffTotal * (1 - (min(sliderHeatMonths) / 100))), line 307.  The
\* double product falls below the exact value at the listed (headcount, min).
numNonZeroHeat(sessionStaffTotal, sliderHeatMonths) ==
    LET lo    == Min2(sliderHeatMonths[1], sliderHeatMonths[2])
        exact == (sessionStaffTotal * (100 - lo)) \div 100
    IN  IF <<sessionStaffTotal, lo>> \in {<<5, 80>>, <<10, 80>>, <<10, 90>>}
        THEN exact - 1 ELSE exact

\* the values, in eighths, one member of heatGroup can take (lines 309-335):
\* a months scalar 1 or 2, a home scalar 0.25, 0.5 or 1 and a sharing scalar
\* 0.5 or 1, each drawn among the values of non-zero weight
HeatScalars8(sliderHeatMonths, sliderHeatHome, sliderHeatSharing) ==
    LET mlo == Min2(sliderHeatMonths[1], sliderHeatMonths[2])
        mhi == Max2(sliderHeatMonths[1], sliderHeatMonths[2])
        hlo == Min2(sliderHeatHome[1], sliderHeatHome[2])
        hhi == Max2(sliderHeatHome[1], sliderHeatHome[2])
        months == {m \in {1, 2} : (m = 1 /\ mhi > mlo) \/ (m = 2 /\ mhi < 100)}
        home4  == {h \in {1, 2, 4} : (h = 1 /\ hlo > 0) \/ (h = 2 /\ hhi > hlo)
                                       \/ (h = 4 /\ hhi < 100)}
        share2 == {k \in {1, 2} : (k = 1 /\ sliderHeatSharing > 0)
                                    \/ (k = 2 /\ sliderHeatSharing < 100)}
    IN  {m * h * k : m \in months, h \in home4, k \in share2}

RECURSIVE HeatSums8(_, _)
\* the values, in eighths, sum(heatGroup) can take for a group of n members
HeatSums8(n, scalars8) ==
    IF n <= 0 THEN {0}
    ELSE {a + b : a \in scalars8, b \in HeatSums8(n - 1, scalars8)}

\* the locals of one run of fn_FormWfh; ss is st.session_state, opt_ttl and
\* heatSum8 are what the random generator drew
\* (for headcounts up to 12 the double products of lines 268 and 270 floor to
\* the exact values)
FormWfh(ss, sliderLaptop, sliderPhone, optionsMonitor, sliderHeatMonths, sliderHeatHome, sliderHeatSharing, opt_ttl, heatSum8) ==
    LET wfhHours   == RMul(ss.sessionStaffTotalHoursPerYear,
                           RSub(RInt(1), ss.sessionStaffOfficeRate))
        numLaptop  == (ss.sessionStaffTotal * sliderLaptop) \div 100
        numDesktop == ss.sessionStaffTotal - numLaptop
        numPhone   == (ss.sessionStaffTotal * sliderPhone) \div 100
        phoneGroupRaw    == RMul(ItOptions["mobile phone"], RInt(numPhone))
        computerGroupRaw ==
            RAdd(RMul(RMul(wfhHours, Rat(sliderLaptop, 100)), ItOptions["laptop"]),
                 RMul(RMul(wfhHours, Rat(100 - sliderLaptop, 100)),
                      ItOptions["desktop + monitor"]))
        monitors   == monitorGroupRaw(wfhHours, optionsMonitor, opt_ttl)
        newEmissionsIt ==
            RMul(RSumSeq(<<computerGroupRaw, phoneGroupRaw, monitors>>),
                 RInt(ElectricConvFactor))
        newEmissionsLight ==
            RMul(RMul(RMul(RInt(ElectricConvFactor), wfhHours), LightAllowance),
                 Rat(1, 2))
        base == [form |-> "Wfh", staffTotalRead |-> ss.sessionStaffTotal,
                 wfhHours |-> wfhHours, numLaptop |-> numLaptop,
                 numDesktop |-> numDesktop, numPhone |-> numPhone,
                 heatSum8 |-> heatSum8,
                 newEmissionsIt |-> newEmissionsIt,
                 newEmissionsLight |-> newEmissionsLight]
    IN  IF ss.sessionStaffTotal = 0
        THEN \* sum(heatGroup) / 0 at lines 338-340
             base @@ [raised |-> "ZeroDivisionError"]
        ELSE LET newEmissionsHeat ==
                     RMul(RMul(RMul(Rat(heatSum8, 8 * ss.sessionStaffTotal), wfhHours),
                               RInt(HeatAllowance)),
                          RInt(HeatConvFactor))
             IN  base @@ [raised |-> "none",
                          newEmissionsHeat |-> newEmissionsHeat,
                          newEmissionsWfh  |->
                              RSumSeq(<<newEmissionsIt, newEmissionsLight,
                                        newEmissionsHeat>>)]

\* commit_l of lines 350-355
WfhCommit(r) ==
    << <<"sessionEmissionsLight", r.newEmissionsLight>>,
       <<"sessionEmissionsIt", r.newEmissionsIt>>,
       <<"sessionEmissionsHeat", r.newEmissionsHeat>>,
       <<"sessionEmissionsWfh", r.newEmissionsWfh>> >>

(***************************************************************************)
(* Session state and fn_Refresher, src/app.py:49-74 and 366-382            *)
(***************************************************************************)
VARIABLES
    session_state,    \* st.session_state: the session fields and sessionLog
    widgets,          \* the widget values of the most recent fragment run
    frag,             \* the locals of the most recent fragment run
    confirmWfhShown   \* the WFH fragment's last run reached its Confirm button

vars == <<session_state, widgets, frag, confirmWfhShown>>

\* the most data rows of sessionLog that are followed
MaxLog == 3

\* line 373
LogHeader ==
    <<"TotalFte", "TotalDistance", "TotalEmissionsCommute", "TotalEmissionsWfh",
      "TotalEmissions">>

\* sessionStaffAbsenceRate as set at lines 375-376
InitialAbsenceRate ==
    Rat(MaxWorkDaysPerYear - DefaultAbsencePerYear, MaxWorkDaysPerYear)

\* the session state after lines 366-382; the fields of
\* params_d['SessionDefaults'] start at 0 and the headcount at DefaultStaffNum
InitialSession ==
    [sessionFteTotal               |-> RZero,
     sessionStaffTotal             |-> DefaultStaffNum,
     sessionDistanceTotal          |-> 0,
     sessionEmissionsTransport     |-> RZero,
     sessionEmissionsLight         |-> RZero,
     sessionEmissionsIt            |-> RZero,
     sessionEmissionsHeat          |-> RZero,
     sessionEmissionsWfh           |-> RZero,
     sessionEmissionsTotal         |-> RZero,
     sessionLog                    |-> <<LogHeader>>,
     sessionStaffAbsenceRate       |-> InitialAbsenceRate,
     sessionStaffOfficeRate        |-> Rat(4, MaxWorkDaysPerMonth),
     sessionStaffTotalHoursPerYear |->
         RMul(RMul(RInt(MaxWorkDaysPerYear), RSub(RInt(1), InitialAbsenceRate)),
              Rat(MaxHoursPerWeek, 5))]

RECURSIVE Commit(_, _)
\* the loop of lines 60-62
Commit(ss, commit_obj) ==
    IF commit_obj = <<>> THEN ss
    ELSE Commit([ss EXCEPT ![Head(commit_obj)[1]] = Head(commit_obj)[2]],
                Tail(commit_obj))

\* the row appended at lines 66-74
LogRow(ss) ==
    <<ss.sessionFteTotal, ss.sessionDistanceTotal, ss.sessionEmissionsTransport,
      ss.sessionEmissionsWfh, ss.sessionEmissionsTotal>>

\* the total without the WFH emissions
SetTotalTransportOnly(ss) ==
    [ss EXCEPT !.sessionEmissionsTotal = ss.sessionEmissionsTransport]

\* line 65
SetTotal(ss) ==
    [ss EXCEPT !.sessionEmissionsTotal =
                   RAdd(ss.sessionEmissionsTransport, ss.sessionEmissionsWfh)]

\* the new row put first, right after the header
AppendLogNewestFirst(ss) ==
    [ss EXCEPT !.sessionLog =
                   <<Head(ss.sessionLog), LogRow(ss)>> \o Tail(ss.sessionLog)]

\* lines 66-74
AppendLog(ss) == [ss EXCEPT !.sessionLog = Append(ss.sessionLog, LogRow(ss))]

\* the row logged before the total is recomputed
fn_RefresherLogsFirst(ss, commit_obj) == SetTotal(AppendLog(Commit(ss, commit_obj)))

\* fn_Refresher: the session state it leaves
fn_Refresher(ss, commit_obj) == AppendLog(SetTotal(Commit(ss, commit_obj)))

Init ==
    /\ session_state = InitialSession
    /\ widgets = <<>>
    /\ frag = [form |-> "none", refreshed |-> FALSE]
    /\ confirmWfhShown = (InitialSession.sessionStaffTotal # 0)

\* the model follows a session up to MaxLog confirmations
CanConfirm == Len(session_state.sessionLog) <= MaxLog

(***************************************************************************)
(* The widget values that are followed                                     *)
(***************************************************************************)
\* <<total_staff_num, part-time %, fteHoursPerWeek, daysHolidayPerYear,
\*   absenceDaysPerYear in half days>>
SessionStaffInputs ==
    {<<0, 25, 35, 25, 0>>, <<2, 25, 35, 25, 0>>, <<3, 50, 40, 20, 1>>}

FormStaffInputs ==
    (MinStaffNum..MaxStaffNum) \X (0..99) \X {30, 35, 48} \X {20, 50} \X {0, 1, 20}

\* the most distance besides DefaultMaxStaffDistance the distance slider takes
MaxDistance == 6

SliderDistances ==
    {d \in 1..MaxSliderDistance : d <= MaxDistance \/ d = DefaultMaxStaffDistance}

\* <<sliderDistance, sliderOfficeVisits, radioCloseFar>>
SessionDistanceInputs ==
    {<< <<2, 5>>, 4, "Very close">>, << <<1, 6>>, 1, "Far">>}

FormDistanceInputs ==
    {<<lo, hi>> \in SliderDistances \X SliderDistances : lo <= hi}
        \X (1..MaxVisitsPerMonth) \X DOMAIN radioCloseFar_d

\* <<sliderTransMix, sliderBusTrain, selectCarRegion>>, sliderBusTrain within
\* the bounds 1 .. 100 - max(sliderTransMix) of line 207
SessionMixInputs ==
    {<< <<33, 67>>, 16, "United Kingdom">>}

FormMixInputs ==
    {<< <<lo, hi>>, bus, "United Kingdom">> :
        <<lo, hi, bus>> \in {t \in (1..100) \X (1..100) \X (1..99) :
                               t[1] <= t[2] /\ t[3] <= 100 - t[2]}}

\* <<sliderLaptop %, sliderPhone %, optionsMonitor, sliderHeatMonths,
\*   sliderHeatHome, sliderHeatSharing>>
SessionWfhInputs ==
    {<<75, 50, {}, <<30, 80>>, <<0, 100>>, 0>>,
     <<100, 0, {"1 extra monitor"}, <<100, 100>>, <<30, 60>>, 0>>}

(***************************************************************************)
(* The fragments: a run without the Confirm button (a widget changed), and *)
(* a run with it, which ends in fn_Refresher                               *)
(***************************************************************************)
RenderStaff(inputs) ==
    \E i \in inputs :
        /\ widgets' = i
        /\ frag' = FormStaff(i[1], i[2], i[3], i[4], i[5]) @@ [refreshed |-> FALSE]
        /\ UNCHANGED <<session_state, confirmWfhShown>>

ConfirmStaff(inputs) ==
    \E i \in inputs :
        LET r == FormStaff(i[1], i[2], i[3], i[4], i[5])
        IN  /\ CanConfirm
            /\ widgets' = i
            /\ frag' = r @@ [refreshed |-> TRUE]
            /\ session_state' = fn_Refresher(session_state, StaffCommit(r))
            /\ UNCHANGED confirmWfhShown

RenderCommute(distances, mixes) ==
    \E d \in distances, m \in mixes :
        /\ widgets' = <<d, m>>
        /\ frag' = FormCommute(session_state, d[1], d[2], d[3], m[1], m[2], m[3])
                     @@ [refreshed |-> FALSE]
        /\ UNCHANGED <<session_state, confirmWfhShown>>

ConfirmCommute(distances, mixes) ==
    \E d \in distances, m \in mixes :
        LET r == FormCommute(session_state, d[1], d[2], d[3], m[1], m[2], m[3])
        IN  /\ CanConfirm
            /\ widgets' = <<d, m>>
            /\ frag' = r @@ [refreshed |-> TRUE]
            /\ session_state' = fn_Refresher(session_state, CommuteCommit(r))
            /\ UNCHANGED confirmWfhShown

\* what the random generator can draw in one run of fn_FormWfh
WfhRuns(ss, i) ==
    {FormWfh(ss, i[1], i[2], i[3], i[4], i[5], i[6], opt_ttl, heatSum8) :
        opt_ttl \in MonitorDraws(i[3]),
        heatSum8 \in HeatSums8(numNonZeroHeat(ss.sessionStaffTotal, i[4]),
                               HeatScalars8(i[4], i[5], i[6]))}

RenderWfh(inputs) ==
    \E i \in inputs :
        \E r \in WfhRuns(session_state, i) :
            /\ widgets' = i
            /\ frag' = r @@ [refreshed |-> FALSE]
            /\ confirmWfhShown' = (r.raised = "none")
            /\ UNCHANGED session_state

\* the Confirm button is there to click only if the last run drew it; the run
\* the click starts reaches fn_Refresher only if it raises nothing (frag.refreshed
\* tells whether the run ended in fn_Refresher)
ConfirmWfh(inputs) ==
    \E i \in inputs :
        \E r \in WfhRuns(session_state, i) :
            /\ confirmWfhShown
            /\ CanConfirm
            /\ widgets' = i
            /\ confirmWfhShown' = (r.raised = "none")
            /\ IF r.raised = "none"
               THEN /\ frag' = r @@ [refreshed |-> TRUE]
                    /\ session_state' = fn_Refresher(session_state, WfhCommit(r))
               ELSE /\ frag' = r @@ [refreshed |-> FALSE]
                    /\ UNCHANGED session_state

Next ==
    \/ ConfirmStaff(SessionStaffInputs)
    \/ ConfirmCommute(SessionDistanceInputs, SessionMixInputs)
    \/ RenderWfh(SessionWfhInputs)
    \/ ConfirmWfh(SessionWfhInputs)

Spec == Init /\ [][Next]_vars

(***************************************************************************)
(* One fragment run on its own: the widget values are drawn first, from    *)
(* wider sets, and the fragment then runs once on them                     *)
(***************************************************************************)
InitStaffForm ==
    /\ session_state = InitialSession
    /\ widgets \in FormStaffInputs
    /\ frag = [form |-> "none", refreshed |-> FALSE]
    /\ confirmWfhShown = (InitialSession.sessionStaffTotal # 0)

RunStaffForm == frag.form = "none" /\ RenderStaff({widgets})

SpecStaffForm == InitStaffForm /\ [][RunStaffForm]_vars

\* a session whose first confirmation set the headcount to n
HeadcountSession(n) ==
    fn_Refresher(InitialSession, StaffCommit(FormStaff(n, 25, 35, 25, 0)))

InitDistanceForm ==
    /\ \E n \in MinStaffNum..MaxStaffNum : session_state = HeadcountSession(n)
    /\ widgets \in FormDistanceInputs \X SessionMixInputs
    /\ frag = [form |-> "none", refreshed |-> FALSE]
    /\ confirmWfhShown = (InitialSession.sessionStaffTotal # 0)

RunCommuteForm == frag.form = "none" /\ RenderCommute({widgets[1]}, {widgets[2]})

SpecDistanceForm == InitDistanceForm /\ [][RunCommuteForm]_vars

InitMixForm ==
    /\ session_state = InitialSession
    /\ widgets \in {<< <<1, 6>>, 1, "Far">>} \X FormMixInputs
    /\ frag = [form |-> "none", refreshed |-> FALSE]
    /\ confirmWfhShown = (InitialSession.sessionStaffTotal # 0)

SpecMixForm == InitMixForm /\ [][RunCommuteForm]_vars

(***************************************************************************)
(* Properties                                                              *)
(***************************************************************************)
sessionLog == session_state.sessionLog

StaffFields ==
    {"sessionFteTotal", "sessionStaffTotal", "sessionStaffAbsenceRate",
     "sessionStaffTotalHoursPerYear"}

CommuteFields ==
    {"sessionStaffOfficeRate", "sessionDistanceTotal", "sessionEmissionsTransport"}

WfhFields ==
    {"sessionEmissionsLight", "sessionEmissionsIt", "sessionEmissionsHeat",
     "sessionEmissionsWfh"}

\* C1: after a run of the Commute Model, distance_group has exactly
\* sessionStaffTotal members and every member lies within
\* [min(sliderDistance), max(sliderDistance)].
C1_DistanceGroupSizeAndRange ==
    frag.form = "Commute" =>
        /\ Len(frag.distance_group) = frag.staffTotalRead
        /\ \A i \in 1..Len(frag.distance_group) :
              /\ RLeq(RInt(Min2(frag.sliderDistance[1], frag.sliderDistance[2])),
                      frag.distance_group[i])
              /\ RLeq(frag.distance_group[i],
                      RInt(Max2(frag.sliderDistance[1], frag.sliderDistance[2])))

\* C2: a run of the WFH Model raises nothing and yields IT, lighting and
\* heating emissions that are each >= 0, and each 0 when the committed
\* headcount is 0.
C2_WfhEmissionsNonNegativeAndZero ==
    frag.form = "Wfh" =>
        /\ frag.raised = "none"
        /\ RLeq(RZero, frag.newEmissionsIt)
        /\ RLeq(RZero, frag.newEmissionsLight)
        /\ RLeq(RZero, frag.newEmissionsHeat)
        /\ frag.staffTotalRead = 0 =>
              /\ frag.newEmissionsIt = RZero
              /\ frag.newEmissionsLight = RZero
              /\ frag.newEmissionsHeat = RZero

\* C3: every step that ends in fn_Refresher appends exactly one row to
\* sessionLog, and the row holds sessionFteTotal, sessionDistanceTotal,
\* sessionEmissionsTransport, sessionEmissionsWfh and sessionEmissionsTotal as
\* they stand after the commit; no other step changes the log.
C3_ConfirmAppendsCurrentRow ==
    [][IF frag'.refreshed
       THEN session_state'.sessionLog =
                Append(sessionLog,
                       <<session_state'.sessionFteTotal,
                         session_state'.sessionDistanceTotal,
                         session_state'.sessionEmissionsTransport,
                         session_state'.sessionEmissionsWfh,
                         session_state'.sessionEmissionsTotal>>)
       ELSE session_state'.sessionLog = sessionLog]_vars

\* a confirmation has just appended its row
C3_Witness ==
    /\ frag.refreshed
    /\ frag.form = "Wfh"
    /\ Len(sessionLog) = 3
    /\ sessionLog[3][4] = session_state.sessionEmissionsWfh
    /\ session_state.sessionEmissionsWfh # RZero

\* the fields of `fields` are the same before and after the step
FieldsKept(fields) == \A f \in fields : session_state'[f] = session_state[f]

\* C4: a step changes the output fields of a module only if it is a
\* confirmation of that module: a Staffing confirmation leaves the Commute and
\* WFH fields, a Commute confirmation the Staffing and WFH fields, and a WFH
\* confirmation the Staffing and Commute fields as they were.
C4_ConfirmKeepsOtherModules ==
    [][/\ (frag'.refreshed /\ frag'.form = "Staff") \/ FieldsKept(StaffFields)
       /\ (frag'.refreshed /\ frag'.form = "Commute") \/ FieldsKept(CommuteFields)
       /\ (frag'.refreshed /\ frag'.form = "Wfh") \/ FieldsKept(WfhFields)]_vars

\* a Staffing confirmation that followed a Commute commit and changed the
\* headcount
C4_Witness ==
    /\ frag.refreshed
    /\ frag.form = "Staff"
    /\ session_state.sessionStaffTotal # DefaultStaffNum
    /\ session_state.sessionDistanceTotal > 0

\* C5: after one or more confirmations sessionEmissionsTotal is
\* sessionEmissionsTransport + sessionEmissionsWfh, and in every data row of
\* the log the fifth value is the sum of the third and the fourth.
C5_TotalIsTransportPlusWfh ==
    Len(sessionLog) >= 2 =>
        /\ session_state.sessionEmissionsTotal =
               RAdd(session_state.sessionEmissionsTransport,
                    session_state.sessionEmissionsWfh)
        /\ \A k \in 2..Len(sessionLog) :
               sessionLog[k][5] = RAdd(sessionLog[k][3], sessionLog[k][4])

\* three confirmations, and both terms of the total are non-zero
C5_Witness ==
    /\ Len(sessionLog) = 4
    /\ session_state.sessionEmissionsTransport # RZero
    /\ session_state.sessionEmissionsWfh # RZero

\* C6: after a run of the Staffing Model, total_staff_group has exactly
\* total_staff_num members and the fifth part-time bucket received a
\* remainder >= 0.
C6_StaffGroupSize ==
    frag.form = "Staff" =>
        /\ Len(frag.total_staff_group) = frag.total_staff_num
        /\ frag.fifth_bucket_num >= 0

\* part-time workers in the first four buckets and in the fifth
C6_Witness ==
    /\ frag.form = "Staff"
    /\ frag.total_staff_num = MaxStaffNum
    /\ frag.part_time_num >= 5
    /\ frag.fifth_bucket_num >= 1
    /\ frag.fifth_bucket_num < frag.part_time_num

\* C7: after a run of the Commute Model on mix sliders within their bounds,
\* walk_pct + car_pct + bus_pct + train_pct = 100.
C7_MixSumsTo100 ==
    frag.form = "Commute" =>
        frag.mix.walk_pct + frag.mix.car_pct + frag.mix.bus_pct
            + frag.mix.train_pct = 100

C7_Witness ==
    /\ frag.form = "Commute"
    /\ frag.sliderTransMix = <<33, 67>>
    /\ frag.mix.bus_pct = 16
    /\ frag.mix.train_pct = 17

\* C8: the first entry of sessionLog is always the header row, and every step
\* leaves the entries already in the log as and where they were.
C8_LogAppendOnly ==
    /\ [](sessionLog[1] = LogHeader)
    /\ [][/\ Len(session_state'.sessionLog) >= Len(sessionLog)
          /\ SubSeq(session_state'.sessionLog, 1, Len(sessionLog)) = sessionLog]_vars

\* two confirmations of different outcome are in the log
C8_Witness ==
    /\ Len(sessionLog) = 3
    /\ sessionLog[2] # sessionLog[3]

\* C9: after a run of the Commute Model, every member of distanceCommute is at
\* most max(sliderDistance) * 4.
C9_CommuteCapped ==
    frag.form = "Commute" =>
        \A i \in 1..Len(frag.distanceCommute) :
            RLeq(frag.distanceCommute[i],
                 RInt(4 * Max2(frag.sliderDistance[1], frag.sliderDistance[2])))

\* range (1, 50), 4 visits: a member was cut to 200 and another was not
C9_Witness ==
    /\ frag.form = "Commute"
    /\ frag.sliderDistance = <<1, 50>>
    /\ frag.sliderOfficeVisits = 4
    /\ \E i \in 1..Len(frag.distanceCommute) :
          /\ frag.distanceCommute[i] = RInt(200)
          /\ RLt(RInt(25), frag.distance_group[i])
    /\ \E i \in 1..Len(frag.distanceCommute) :
          RLt(frag.distanceCommute[i], RInt(200))

\* C10: after a Commute confirmation, sessionEmissionsTransport is the
\* per-mode formula applied to the sessionDistanceTotal that the same
\* confirmation committed.
C10_EmissionsFromCommittedDistance ==
    (frag.form = "Commute" /\ frag.refreshed) =>
        session_state.sessionEmissionsTransport =
            TransportEmissions(session_state.sessionDistanceTotal, frag.mix,
                               frag.selectCarRegion)

\* C11 as stated: when the Staffing Model runs with headcount 0, total FTE,
\* total headcount, absence rate and total staff-hours/year are all 0.
C11_AllOutputsZeroAtHeadcountZero ==
    (frag.form = "Staff" /\ frag.total_staff_num = 0) =>
        /\ frag.newFteTotal = RZero
        /\ frag.newStaffTotal = 0
        /\ frag.newAbsenceRate = RZero
        /\ frag.newTtlHrsPerYr = RZero

\* C11 as amended: when the Staffing Model runs with headcount 0, total FTE,
\* total headcount and total staff-hours/year are 0, and the absence rate is
\* (MaxWorkDaysPerYear - holiday days - absence days) / MaxWorkDaysPerYear,
\* whatever the headcount.
C11_ZeroOutputsAtHeadcountZero ==
    (frag.form = "Staff" /\ frag.total_staff_num = 0) =>
        /\ frag.newFteTotal = RZero
        /\ frag.newStaffTotal = 0
        /\ frag.newTtlHrsPerYr = RZero
        /\ frag.newAbsenceRate =
               Rat(2 * (MaxWorkDaysPerYear - widgets[4]) - widgets[5],
                   2 * MaxWorkDaysPerYear)

\* headcount 0 with the other widgets away from their lowest values
C11_Witness ==
    /\ frag.form = "Staff"
    /\ frag.total_staff_num = 0
    /\ widgets = <<0, 99, 48, 50, 20>>
    /\ frag.total_staff_group = <<>>
    /\ frag.newAbsenceRate # RZero

====
